---- MODULE Spec2Model ----
(***************************************************************************)
(* A model of solzempic: the typed account accessors (AccountRef,          *)
(* AccountRefMut), their initialization entry points, and the              *)
(* build -> validate -> execute instruction protocol with the generated    *)
(* discriminator router.                                                   *)
(*                                                                         *)
(* An account buffer is a sequence of bytes (1-based here, 0-based in the  *)
(* source: data[0] of the source is data[1] of the model).                 *)
(***************************************************************************)
EXTENDS Integers, Sequences, FiniteSets, TLC

\* ------------------------------------------------------------------ bounds

\* Number of raw account handles the accessor constructors are tried on.
NHandles == 1
\* Largest number of accessors that are alive at the same time.
MaxLive == 1
\* Bytes an account buffer may have beyond the size of the largest type.
MaxExtra == 1

\* ------------------------------------------------------- program constants

\* Identities: the program, the system program, and some other program.
PROGRAM_ID == "Program"
SYSTEM_PROGRAM_ID == "System"
OTHER_PROGRAM_ID == "Other"
Owners == {PROGRAM_ID, SYSTEM_PROGRAM_ID, OTHER_PROGRAM_ID}

\* The Loadable types of the modelled program: Wallet (an 8 byte
\* discriminator field and a u64 balance) and Counter (8 byte discriminator
\* field, 32 byte owner, u64 count).
WalletDISCRIMINATOR == 2
WalletLEN == 16
CounterDISCRIMINATOR == 1
CounterLEN == 48
Types == {"Wallet", "Counter"}
DISCRIMINATOR(T) == IF T = "Wallet" THEN WalletDISCRIMINATOR ELSE CounterDISCRIMINATOR
LEN(T) == IF T = "Wallet" THEN WalletLEN ELSE CounterLEN

\* ------------------------------------------------------------------- bytes

Zeros(n) == [i \in 1..n |-> 0]
Take(s, n) == IF n >= Len(s) THEN s ELSE SubSeq(s, 1, n)
RECURSIVE le_bytes(_, _)
\* the k low bytes of n, least significant first
le_bytes(n, k) ==
    IF k = 0 THEN <<>> ELSE <<n % 256>> \o le_bytes(n \div 256, k - 1)
\* u64::to_le_bytes
to_le_bytes(n) == le_bytes(n, 8)
RECURSIVE from_le_bytes(_)
\* u64::from_le_bytes, on a sequence of bytes of any length
from_le_bytes(b) ==
    IF Len(b) = 0 THEN 0 ELSE b[1] + 256 * from_le_bytes(Tail(b))

\* ----------------------------------------------------------------- results

Ok == [tag |-> "Ok", err |-> "none"]
Err(e) == [tag |-> "Err", err |-> e]
\* A panic (index out of bounds, misaligned dereference): the program aborts.
Abort == [tag |-> "Abort", err |-> "panic"]
IsOk(r) == r.tag = "Ok"

\* crate::errors
account_not_writable == Err("InvalidAccountData")
invalid_account_data == Err("InvalidAccountData")
account_already_initialized == Err("AccountAlreadyInitialized")

\* No sub-program was invoked.
NoCpi == [tag |-> "None", err |-> "none"]
\* Outcome of a constructor: its result, the account as it leaves it, and
\* the result of the sub-program invocation it made, if it made one.
OutCpi(r, info, cpi) == [res |-> r, info |-> info, cpi |-> cpi]
Out(r, info) == OutCpi(r, info, NoCpi)

\* --------------------------------------------------------------- accessors

check_discriminator(data, expected) ==
    Len(data) > 0 /\ data[1] = expected

\* Account::check_data
check_data(data, T) == check_discriminator(data, DISCRIMINATOR(T))

\* Account::load and Account::load_mut, on the raw bytes of the account
Account_load(info, T) ==
    IF Len(info.data) < LEN(T) THEN Out(Err("InvalidAccountData"), info)
    ELSE IF ~check_data(info.data, T) THEN Out(Err("InvalidAccountData"), info)
    ELSE Out(Ok, info)

Account_load_mut(info, T) ==
    IF Len(info.data) < LEN(T) THEN Out(Err("InvalidAccountData"), info)
    ELSE IF ~check_data(info.data, T) THEN Out(Err("InvalidAccountData"), info)
    ELSE Out(Ok, info)

\* AccountRef::load_unchecked with the length check left out (a mutant).
AccountRef_load_unchecked_no_length(info, T) ==
    IF ~check_discriminator(info.data, DISCRIMINATOR(T))
    THEN Out(invalid_account_data, info)
    ELSE Out(Ok, info)

\* AccountRef::load_unchecked
AccountRef_load_unchecked(info, T) ==
    IF Len(info.data) < LEN(T) THEN Out(invalid_account_data, info)
    ELSE IF ~check_discriminator(info.data, DISCRIMINATOR(T))
         THEN Out(invalid_account_data, info)
    ELSE Out(Ok, info)

\* AccountRef::load
AccountRef_load(info, T) ==
    IF info.owner # PROGRAM_ID THEN Out(Err("IllegalOwner"), info)
    ELSE AccountRef_load_unchecked(info, T)

\* AccountRefMut::load_unchecked with an owner check added (a mutant).
AccountRefMut_load_unchecked_owner(info, T) ==
    IF info.owner # PROGRAM_ID THEN Out(Err("IllegalOwner"), info)
    ELSE IF Len(info.data) < LEN(T) THEN Out(invalid_account_data, info)
    ELSE IF ~check_discriminator(info.data, DISCRIMINATOR(T))
         THEN Out(invalid_account_data, info)
    ELSE Out(Ok, info)

\* AccountRefMut::load_unchecked
AccountRefMut_load_unchecked(info, T) ==
    IF Len(info.data) < LEN(T) THEN Out(invalid_account_data, info)
    ELSE IF ~check_discriminator(info.data, DISCRIMINATOR(T))
         THEN Out(invalid_account_data, info)
    ELSE Out(Ok, info)

\* AccountRefMut::load with the owner checked before is_writable (a mutant).
AccountRefMut_load_owner_first(info, T) ==
    IF info.owner # PROGRAM_ID THEN Out(Err("IllegalOwner"), info)
    ELSE IF ~info.is_writable THEN Out(account_not_writable, info)
    ELSE IF Len(info.data) < LEN(T) THEN Out(invalid_account_data, info)
    ELSE IF ~check_discriminator(info.data, DISCRIMINATOR(T))
         THEN Out(invalid_account_data, info)
    ELSE Out(Ok, info)

\* AccountRefMut::load
AccountRefMut_load(info, T) ==
    IF ~info.is_writable THEN Out(account_not_writable, info)
    ELSE IF info.owner # PROGRAM_ID THEN Out(Err("IllegalOwner"), info)
    ELSE AccountRefMut_load_unchecked(info, T)

\* AccountRefMut::try_load without the owner check (a mutant).
AccountRefMut_try_load_no_owner(info, T) ==
    IF ~info.is_writable THEN Out(Err("None"), info)
    ELSE IF IsOk(AccountRefMut_load_unchecked(info, T).res) THEN Out(Ok, info)
    ELSE Out(Err("None"), info)

\* AccountRefMut::try_load: "None" stands for Option::None
AccountRefMut_try_load(info, T) ==
    IF ~info.is_writable THEN Out(Err("None"), info)
    ELSE IF info.owner # PROGRAM_ID THEN Out(Err("None"), info)
    ELSE IF IsOk(AccountRefMut_load_unchecked(info, T).res) THEN Out(Ok, info)
    ELSE Out(Err("None"), info)

\* is_uninit that takes every account of the program for uninitialized,
\* whatever its discriminator byte (a mutant).
is_uninit_any_discriminator(info) ==
    info.owner = SYSTEM_PROGRAM_ID \/ info.owner = PROGRAM_ID

\* AccountRefMut::is_uninit
is_uninit(info) ==
    IF info.owner = SYSTEM_PROGRAM_ID THEN TRUE
    ELSE IF info.owner = PROGRAM_ID
         THEN Len(info.data) = 0 \/ info.data[1] = 0
    ELSE FALSE

\* data[0] = T::DISCRIMINATOR
WriteDiscriminator(info, T) ==
    [info EXCEPT !.data = [@ EXCEPT ![1] = DISCRIMINATOR(T)]]

\* AccountRefMut::init with the length checked before the state (a mutant).
AccountRefMut_init_length_first(info, T) ==
    IF ~info.is_writable THEN Out(account_not_writable, info)
    ELSE IF Len(info.data) < LEN(T) THEN Out(invalid_account_data, info)
    ELSE IF ~is_uninit(info) THEN Out(account_already_initialized, info)
    ELSE AccountRefMut_load_unchecked(WriteDiscriminator(info, T), T)

\* AccountRefMut::init with the discriminator written before the state is
\* checked (a mutant).
AccountRefMut_init_writes_first(info, T) ==
    IF ~info.is_writable THEN Out(account_not_writable, info)
    ELSE IF Len(info.data) < LEN(T) THEN Out(invalid_account_data, info)
    ELSE IF ~is_uninit(info)
         THEN Out(account_already_initialized, WriteDiscriminator(info, T))
    ELSE AccountRefMut_load_unchecked(WriteDiscriminator(info, T), T)

\* AccountRefMut::init
AccountRefMut_init(info, T) ==
    IF ~info.is_writable THEN Out(account_not_writable, info)
    ELSE IF ~is_uninit(info) THEN Out(account_already_initialized, info)
    ELSE IF Len(info.data) < LEN(T) THEN Out(invalid_account_data, info)
    ELSE AccountRefMut_load_unchecked(WriteDiscriminator(info, T), T)

\* AccountRefMut::init_if_needed that writes the discriminator whatever the
\* state of the account is (a mutant).
AccountRefMut_init_if_needed_overwrites(info, T) ==
    IF ~info.is_writable THEN Out(account_not_writable, info)
    ELSE IF Len(info.data) < LEN(T) THEN Out(invalid_account_data, info)
    ELSE AccountRefMut_load_unchecked(WriteDiscriminator(info, T), T)

\* AccountRefMut::init_if_needed without the is_writable check (a mutant).
AccountRefMut_init_if_needed_no_writable(info, T) ==
    IF is_uninit(info)
    THEN IF Len(info.data) < LEN(T) THEN Out(invalid_account_data, info)
         ELSE AccountRefMut_load_unchecked(WriteDiscriminator(info, T), T)
    ELSE AccountRefMut_load_unchecked(info, T)

\* AccountRefMut::init_if_needed
AccountRefMut_init_if_needed(info, T) ==
    IF ~info.is_writable THEN Out(account_not_writable, info)
    ELSE IF is_uninit(info)
         THEN IF Len(info.data) < LEN(T) THEN Out(invalid_account_data, info)
              ELSE AccountRefMut_load_unchecked(WriteDiscriminator(info, T), T)
    ELSE AccountRefMut_load_unchecked(info, T)

\* create_pda_account: the CreateAccount invocation of the system program,
\* signed with the seeds. The host refuses an account that is already in use
\* (not system-owned, or with data), a signature the seeds do not derive, and
\* a payer without the rent-exempt minimum; otherwise the account gets
\* `space` zero bytes and the program as its owner.
create_pda_account(new_account, space, seeds_ok, funded) ==
    IF new_account.owner # SYSTEM_PROGRAM_ID \/ Len(new_account.data) > 0
    THEN Out(Err("AccountAlreadyInUse"), new_account)
    ELSE IF ~seeds_ok THEN Out(Err("MissingRequiredSignature"), new_account)
    ELSE IF ~funded THEN Out(Err("InsufficientFunds"), new_account)
    ELSE Out(Ok, [new_account EXCEPT !.owner = PROGRAM_ID, !.data = Zeros(space)])

\* AccountRefMut::init_pda that invokes the creation before it checks
\* is_writable (a mutant).
AccountRefMut_init_pda_create_first(info, T, space, seeds_ok, funded) ==
    LET created == create_pda_account(info, space, seeds_ok, funded) IN
    IF ~IsOk(created.res) THEN OutCpi(created.res, info, created.res)
    ELSE IF ~info.is_writable THEN OutCpi(account_not_writable, created.info, Ok)
    ELSE IF Len(created.info.data) = 0 THEN OutCpi(Abort, created.info, Ok)
    ELSE OutCpi(AccountRefMut_load_unchecked(WriteDiscriminator(created.info, T), T).res,
                WriteDiscriminator(created.info, T), Ok)

\* AccountRefMut::init_pda
AccountRefMut_init_pda(info, T, space, seeds_ok, funded) ==
    IF ~info.is_writable THEN Out(account_not_writable, info)
    ELSE LET created == create_pda_account(info, space, seeds_ok, funded) IN
         IF ~IsOk(created.res) THEN OutCpi(created.res, info, created.res)
         ELSE IF Len(created.info.data) = 0 THEN OutCpi(Abort, created.info, Ok)
         ELSE OutCpi(AccountRefMut_load_unchecked(WriteDiscriminator(created.info, T), T).res,
                     WriteDiscriminator(created.info, T), Ok)

\* ------------------------------------------------------------------- state

VARIABLES
    accounts,   \* handle -> AccountView: owner, is_writable, is_signer, data
    live,       \* the accessors that are alive: [kind, h, T, via, len]
    last,       \* the last call: [op, h, T, res, again, cpi]
    before,     \* accounts as they were before the last constructor call
    proc,       \* the instruction being processed, see IdleProc
    shard       \* the shard triplet context in use, see NoShard

vars == <<accounts, live, last, before, proc, shard>>

Handles == DOMAIN accounts

AccountView(owner, is_writable, is_signer, data) ==
    [owner |-> owner, is_writable |-> is_writable, is_signer |-> is_signer,
     data |-> data]

\* The bytes of an account of at most the largest type plus MaxExtra bytes:
\* discriminator field, then a u64 (the balance of a Wallet), then zeros.
Image(d, bal) ==
    <<d>> \o Zeros(7) \o to_le_bytes(bal) \o Zeros(CounterLEN - WalletLEN + MaxExtra)
DataLens ==
    {0, 1, WalletLEN - 1, WalletLEN, CounterLEN - 1, CounterLEN, CounterLEN + MaxExtra}
Discriminators == {0, WalletDISCRIMINATOR, CounterDISCRIMINATOR}
DataSet == {Take(Image(d, 500), n) : d \in Discriminators, n \in DataLens}
\* space arguments of init_pda
Spaces == {0, WalletLEN, CounterLEN}

NoCall ==
    [op |-> "none", h |-> 0, T |-> "none", res |-> Ok, again |-> FALSE, cpi |-> NoCpi]

\* No instruction is being processed.
IdleProc ==
    [pc |-> "idle",        \* idle, decode, build, validate, execute, done
     entry |-> "none",     \* the generated function called: process or dispatch
     data |-> <<>>,        \* the instruction buffer
     base |-> 0,           \* its address modulo 8
     registry |-> <<>>,    \* the variants of the instruction enum
     handler |-> "none",   \* the handler the router selected
     offset |-> 0,         \* where the slice handed to the handler starts
     params |-> 0,         \* the decoded Parameter Block
     plan |-> <<>>,        \* the constructors the handler's build applies
     ctx |-> <<>>,         \* the context build returned
     trace |-> <<>>,       \* the phases run so far, each with its result
     outcome |-> Ok,       \* the result of process, once pc = "done"
     start |-> <<>>]       \* the accounts when the instruction started

\* No reference into a shard context: no write, no read.
NoAccess == [pos |-> 0, via |-> "none", value |-> 0]

\* No shard triplet context has been asked for.
NoShard ==
    [slots |-> <<>>,       \* the account each slot of the account list holds
     op |-> "none",        \* new or try_new
     args |-> <<>>,        \* the slots passed as low_info, current_info, high_info
     res |-> Ok,           \* the result of the constructor
     loads |-> <<>>,       \* the slots an AccountRefMut load was called on
     ctx |-> <<>>,         \* the context: low, current_ref, high_ref
     old |-> <<>>,         \* the balance behind each position before the write
     w |-> NoAccess,       \* the write made through a position
     r |-> NoAccess]       \* the read made through a position after it

\* An initialized, writable Wallet of the program.
DefaultAccount ==
    AccountView(PROGRAM_ID, TRUE, FALSE, Take(Image(WalletDISCRIMINATOR, 500), WalletLEN))

Init ==
    /\ \E o \in Owners, w \in BOOLEAN, d \in DataSet :
          accounts = [h \in 1..NHandles |->
                        IF h = 1 THEN AccountView(o, w, FALSE, d) ELSE DefaultAccount]
    /\ live = {}
    /\ last = NoCall
    /\ before = accounts
    /\ proc = IdleProc
    /\ shard = NoShard

\* The constructors that check is_writable before they make an accessor.
WritableChecked ==
    {"AccountRefMut::load", "AccountRefMut::try_load", "AccountRefMut::init",
     "AccountRefMut::init_if_needed", "AccountRefMut::init_pda"}
\* How an accessor was made: by a constructor that checked is_writable, or
\* by one that did not.
Via(op) == IF op \in WritableChecked THEN "checked" ELSE "unchecked"

\* An accessor of the given kind over handle h, made in the way via; len is
\* the length of the byte view it holds (the `data` slice it borrowed).
Accessor(kind, h, T, via, len) ==
    [kind |-> kind, h |-> h, T |-> T, via |-> via, len |-> len]

\* A constructor call on handle h: the account becomes what the constructor
\* left, and a successful call makes an accessor of the given kind. `again`
\* records that the call repeats the call right before it (same constructor,
\* handle and type), which succeeded.
Construct(op, kind, h, T, out) ==
    /\ last.res # Abort
    /\ accounts' = [accounts EXCEPT ![h] = out.info]
    /\ before' = accounts
    /\ last' = [op |-> op, h |-> h, T |-> T, res |-> out.res,
                again |-> last.op = op /\ last.h = h /\ last.T = T /\ IsOk(last.res),
                cpi |-> out.cpi]
    /\ IF IsOk(out.res) /\ kind # "none"
       THEN LET a == Accessor(kind, h, T, Via(op), Len(out.info.data)) IN
            /\ Cardinality(live \cup {a}) <= MaxLive
            /\ live' = live \cup {a}
       ELSE live' = live
    /\ UNCHANGED <<proc, shard>>

\* Account::load hands out a typed reference to the bytes, no accessor.
AccountLoad(h, T) ==
    Construct("Account::load", "none", h, T, Account_load(accounts[h], T))

AccountLoadMut(h, T) ==
    Construct("Account::load_mut", "none", h, T, Account_load_mut(accounts[h], T))

Load(h, T) ==
    Construct("AccountRef::load", "AccountRef", h, T, AccountRef_load(accounts[h], T))

LoadUnchecked(h, T) ==
    Construct("AccountRef::load_unchecked", "AccountRef", h, T,
              AccountRef_load_unchecked(accounts[h], T))

LoadMut(h, T) ==
    Construct("AccountRefMut::load", "AccountRefMut", h, T,
              AccountRefMut_load(accounts[h], T))

TryLoadMut(h, T) ==
    Construct("AccountRefMut::try_load", "AccountRefMut", h, T,
              AccountRefMut_try_load(accounts[h], T))

LoadUncheckedMut(h, T) ==
    Construct("AccountRefMut::load_unchecked", "AccountRefMut", h, T,
              AccountRefMut_load_unchecked(accounts[h], T))

InitAccount(h, T) ==
    Construct("AccountRefMut::init", "AccountRefMut", h, T,
              AccountRefMut_init(accounts[h], T))

InitIfNeeded(h, T) ==
    Construct("AccountRefMut::init_if_needed", "AccountRefMut", h, T,
              AccountRefMut_init_if_needed(accounts[h], T))

InitPda(h, T) ==
    \E space \in Spaces, seeds_ok \in BOOLEAN, funded \in BOOLEAN :
        Construct("AccountRefMut::init_pda", "AccountRefMut", h, T,
                  AccountRefMut_init_pda(accounts[h], T, space, seeds_ok, funded))

\* get and get_mut: &self.data[..T::LEN] of the view the accessor holds; the
\* slice panics when the view is shorter than T::LEN.
get(a) == IF a.len < LEN(a.T) THEN Abort ELSE Ok
get_mut(a) == IF a.len < LEN(a.T) THEN Abort ELSE Ok

\* A call of a method of an accessor that is alive.
Method(op, a, res) ==
    /\ last.res # Abort
    /\ last' = [op |-> op, h |-> a.h, T |-> a.T, res |-> res, again |-> FALSE,
                cpi |-> NoCpi]
    /\ before' = accounts
    /\ UNCHANGED <<accounts, proc, shard>>

Get(a) == Method(a.kind \o "::get", a, get(a)) /\ UNCHANGED live

GetMut(a) ==
    /\ a.kind = "AccountRefMut"
    /\ Method("AccountRefMut::get_mut", a, get_mut(a))
    /\ UNCHANGED live

\* reload: self.data = self.info.borrow_unchecked_mut(), the view becomes
\* the buffer as it is now, whatever its length.
reload(a, info) == [a EXCEPT !.len = Len(info.data)]

Reload(a) ==
    /\ a.kind = "AccountRefMut"
    /\ Method("AccountRefMut::reload", a, Ok)
    /\ live' = (live \ {a}) \cup {reload(a, accounts[a.h])}

\* What an invoked program can leave in the buffer of an account it owns.
InvokedData ==
    {Take(Image(d, 500), n) : d \in {0, WalletDISCRIMINATOR},
                              n \in {WalletLEN - 1, CounterLEN}}

\* A sub-program invocation that includes handle h: the program that owns
\* the account may rewrite and resize the buffer of a writable account.
Invoke(h) ==
    /\ last.res # Abort
    /\ accounts[h].owner = OTHER_PROGRAM_ID
    /\ accounts[h].is_writable
    /\ \E d \in InvokedData : accounts' = [accounts EXCEPT ![h].data = d]
    /\ last' = [op |-> "invoke", h |-> h, T |-> "none", res |-> Ok, again |-> FALSE,
                cpi |-> Ok]
    /\ before' = accounts
    /\ UNCHANGED <<live, proc, shard>>

\* An accessor goes out of scope.
Drop ==
    /\ last.res # Abort
    /\ \E a \in live : live' = live \ {a}
    /\ last' = NoCall
    /\ before' = accounts
    /\ UNCHANGED <<accounts, proc, shard>>

Next ==
    \/ \E h \in Handles, T \in Types : AccountLoad(h, T)
    \/ \E h \in Handles, T \in Types : AccountLoadMut(h, T)
    \/ \E h \in Handles, T \in Types : Load(h, T)
    \/ \E h \in Handles, T \in Types : LoadUnchecked(h, T)
    \/ \E h \in Handles, T \in Types : LoadMut(h, T)
    \/ \E h \in Handles, T \in Types : TryLoadMut(h, T)
    \/ \E h \in Handles, T \in Types : LoadUncheckedMut(h, T)
    \/ \E h \in Handles, T \in Types : InitAccount(h, T)
    \/ \E h \in Handles, T \in Types : InitIfNeeded(h, T)
    \/ \E h \in Handles, T \in Types : InitPda(h, T)
    \/ Drop

Spec == Init /\ [][Next]_vars

\* The constructors together with the life of the accessors they make: get,
\* get_mut, reload, and sub-program invocations in between.
NextLife ==
    \/ Next
    \/ \E a \in live : Get(a)
    \/ \E a \in live : GetMut(a)
    \/ \E a \in live : Reload(a)
    \/ \E h \in Handles : Invoke(h)

SpecLife == Init /\ [][NextLife]_vars

\* ---------------------------------------------------- instruction protocol

\* Number of accounts an instruction of the modelled program is given
\* (Transfer: from, to, authority).
NAcc == 3

\* The Parameter Blocks: TransferParams { amount: u64 } and
\* InitializeParams { bump: u8 }, both #[repr(C)].
TransferParamsSize == 8
TransferParamsAlign == 8
InitializeParamsSize == 1
InitializeParamsAlign == 1
size_of(handler) ==
    IF handler = "Transfer" THEN TransferParamsSize ELSE InitializeParamsSize
align_of(handler) ==
    IF handler = "Transfer" THEN TransferParamsAlign ELSE InitializeParamsAlign

\* *(data.as_ptr() as *const T): the value the bytes hold.
read_params(handler, bytes) ==
    IF handler = "Transfer" THEN from_le_bytes(SubSeq(bytes, 1, TransferParamsSize))
    ELSE bytes[1]

Decoded(r, v) == [res |-> r, value |-> v]

\* parse_params::<T>(data), data at address addr: the outcomes it can have.
\* The dereference of a pointer that is not aligned for T is undefined
\* behaviour: the build either reads the bytes or aborts (the misaligned
\* pointer check of a build with debug assertions).
parse_params(data, addr, handler) ==
    IF Len(data) < size_of(handler)
    THEN {Decoded(Err("InvalidInstructionData"), 0)}
    ELSE IF addr % align_of(handler) # 0
         THEN {Decoded(Ok, read_params(handler, data)), Decoded(Abort, 0)}
    ELSE {Decoded(Ok, read_params(handler, data))}

\* The instruction enums: {Initialize = 0, Transfer = 2}, and one where the
\* discriminant 2 is not registered.
Registries ==
    { (0 :> "Initialize") @@ (2 :> "Transfer"),
      (0 :> "Initialize") @@ (1 :> "Transfer") }

\* The generated TryFrom<u8>
try_from(value, registry) ==
    IF value \in DOMAIN registry THEN Ok ELSE Err("InvalidInstructionData")

Routed(r, handler, offset) == [res |-> r, handler |-> handler, offset |-> offset]

\* The generated process with a default arm that runs Initialize (a mutant).
process_route_default(registry, data) ==
    IF Len(data) = 0 THEN Routed(Err("InvalidInstructionData"), "none", 0)
    ELSE IF ~IsOk(try_from(data[1], registry)) THEN Routed(Ok, "Initialize", 1)
    ELSE Routed(Ok, registry[data[1]], 1)

\* The generated enum-level process, up to the call of the handler's
\* Instruction::process with &data[1..].
process_route(registry, data) ==
    IF Len(data) = 0 THEN Routed(Err("InvalidInstructionData"), "none", 0)
    ELSE IF ~IsOk(try_from(data[1], registry))
         THEN Routed(Err("InvalidInstructionData"), "none", 0)
    ELSE Routed(Ok, registry[data[1]], 1)

\* The generated dispatch with the slice of the process arms.
dispatch_route_after_byte_0(variant, data) == Routed(Ok, variant, 1)

\* The generated dispatch, up to the call of the handler's
\* Instruction::process with data.
dispatch_route(variant, data) == Routed(Ok, variant, 0)

\* Instruction::process without the ? after validate (a mutant).
process_next_validate_ignored(phase, res) ==
    IF phase = "validate" THEN "execute"
    ELSE IF ~IsOk(res) THEN "done"
    ELSE IF phase = "decode" THEN "build"
    ELSE IF phase = "build" THEN "validate"
    ELSE "done"

\* Instruction::process: the phase that follows a phase, given its result
\* (the ? after parse_params, build and validate; execute's result is
\* returned).
process_next(phase, res) ==
    IF ~IsOk(res) THEN "done"
    ELSE IF phase = "decode" THEN "build"
    ELSE IF phase = "build" THEN "validate"
    ELSE IF phase = "validate" THEN "execute"
    ELSE "done"

\* Signer::wrap
Signer_wrap(info) ==
    IF ~info.is_signer THEN Out(Err("MissingRequiredSignature"), info)
    ELSE Out(Ok, info)

\* The constructors a build applies to the account list.
Kinds ==
    {"AccountRef::load", "AccountRef::load_unchecked", "AccountRefMut::load",
     "AccountRefMut::try_load", "AccountRefMut::load_unchecked",
     "AccountRefMut::init", "AccountRefMut::init_if_needed", "Signer::wrap"}

construct(kind, info, T) ==
    CASE kind = "AccountRef::load" -> AccountRef_load(info, T)
      [] kind = "AccountRef::load_unchecked" -> AccountRef_load_unchecked(info, T)
      [] kind = "AccountRefMut::load" -> AccountRefMut_load(info, T)
      [] kind = "AccountRefMut::try_load" -> AccountRefMut_try_load(info, T)
      [] kind = "AccountRefMut::load_unchecked" -> AccountRefMut_load_unchecked(info, T)
      [] kind = "AccountRefMut::init" -> AccountRefMut_init(info, T)
      [] kind = "AccountRefMut::init_if_needed" -> AccountRefMut_init_if_needed(info, T)
      [] kind = "Signer::wrap" -> Signer_wrap(info)

Built(r, accs, ctx) == [res |-> r, accounts |-> accs, ctx |-> ctx]

\* A field of the context: the accessor or wrapper a constructor returned,
\* or None where try_load found no account.
Field(kind, h, ok) == [via |-> kind, h |-> h, some |-> ok]

RECURSIVE build_from(_, _, _, _)
\* build: plan[i] applied to accounts[i] in positional order, each with ?,
\* but for try_load, whose None is stored in the context.
build_from(accs, plan, i, ctx) ==
    IF i > Len(plan) THEN Built(Ok, accs, ctx)
    ELSE LET out == construct(plan[i], accs[i], "Wallet")
             now == [accs EXCEPT ![i] = out.info]
         IN IF IsOk(out.res) \/ plan[i] = "AccountRefMut::try_load"
            THEN build_from(now, plan, i + 1,
                            Append(ctx, Field(plan[i], i, IsOk(out.res))))
            ELSE Built(out.res, now, <<>>)

build(accs, plan) == build_from(accs, plan, 1, <<>>)

\* Transfer::build: from and to are AccountRefMut::load, authority is
\* Signer::wrap.
TransferPlan == <<"AccountRefMut::load", "AccountRefMut::load", "Signer::wrap">>
\* Initialize::build: any two constructors, then the payer's Signer::wrap.
InitializePlans == {<<a, b, "Signer::wrap">> : a \in Kinds, b \in Kinds}
Plans(handler) == IF handler = "Transfer" THEN {TransferPlan} ELSE InitializePlans

\* Wallet::balance, the u64 after the discriminator field
balance(info) == from_le_bytes(SubSeq(info.data, 9, 16))
set_balance(info, v) ==
    [info EXCEPT !.data =
        SubSeq(@, 1, 8) \o to_le_bytes(v) \o SubSeq(@, 17, Len(@))]

\* A validate that checks nothing (a mutant).
validate_nothing(handler, accs, ctx, params, ok) == Ok

\* Transfer::validate: from.balance >= amount. Initialize::validate: a
\* business rule that holds (ok) or does not. Neither writes.
validate(handler, accs, ctx, params, ok) ==
    IF handler = "Transfer"
    THEN IF balance(accs[ctx[1].h]) < params THEN Err("InsufficientFunds") ELSE Ok
    ELSE IF ok THEN Ok ELSE Err("Custom")

\* Transfer::execute: from.balance -= amount; to.balance += amount.
\* Initialize::execute writes nothing.
execute(handler, accs, ctx, params) ==
    IF handler = "Transfer"
    THEN LET debited == [accs EXCEPT ![ctx[1].h] = set_balance(@, balance(@) - params)]
         IN Built(Ok, [debited EXCEPT ![ctx[2].h] = set_balance(@, balance(@) + params)],
                  ctx)
    ELSE Built(Ok, accs, ctx)

\* The instruction buffers: the amounts 1000 and 300 for Transfer, a bump
\* for Initialize, short and long buffers, unknown discriminants.
Amounts == {1000, 300}
InstructionData ==
    {<<>>, <<0>>, <<0, 5>>, <<9>>, <<9, 5>>}
    \cup {<<d>> \o to_le_bytes(a) : d \in {1, 2}, a \in Amounts}
    \cup {<<2>> \o Take(to_le_bytes(1000), TransferParamsSize - 1),
          <<2>> \o to_le_bytes(1000) \o <<7>>}
\* Address of the instruction buffer modulo 8: the host aligns it to 8; a
\* caller's own buffer may lie anywhere (7: &data[1..] is aligned).
Bases == {0, 7}

\* The accounts an instruction starts with.
FromAccounts ==
    {AccountView(o, w, FALSE, d) :
        o \in {PROGRAM_ID, SYSTEM_PROGRAM_ID}, w \in BOOLEAN,
        d \in {Take(Image(WalletDISCRIMINATOR, 500), WalletLEN),
               Take(Image(0, 500), WalletLEN),
               Take(Image(WalletDISCRIMINATOR, 500), WalletLEN - 1)}}
ToAccounts ==
    {AccountView(o, TRUE, FALSE, d) :
        o \in {PROGRAM_ID, OTHER_PROGRAM_ID},
        d \in {Take(Image(WalletDISCRIMINATOR, 0), WalletLEN),
               Take(Image(0, 0), WalletLEN)}}
AuthorityAccounts ==
    {AccountView(SYSTEM_PROGRAM_ID, TRUE, s, <<>>) : s \in BOOLEAN}

InitProc ==
    /\ \E f \in FromAccounts, t \in ToAccounts, a \in AuthorityAccounts :
          accounts = [h \in 1..NAcc |-> IF h = 1 THEN f ELSE IF h = 2 THEN t ELSE a]
    /\ live = {}
    /\ last = NoCall
    /\ before = accounts
    /\ proc = IdleProc
    /\ shard = NoShard

Ran(phase, res) == [phase |-> phase, res |-> res]

\* The entrypoint: the generated process on an instruction buffer.
Process ==
    /\ proc.pc = "idle"
    /\ \E registry \in Registries, data \in InstructionData, base \in Bases :
          LET r == process_route(registry, data) IN
          proc' = [proc EXCEPT !.data = data, !.base = base, !.registry = registry,
                               !.handler = r.handler, !.offset = r.offset,
                               !.start = accounts, !.entry = "process",
                               !.pc = IF IsOk(r.res) THEN "decode" ELSE "done",
                               !.outcome = r.res]
    /\ UNCHANGED <<accounts, live, last, before, shard>>

\* Enum::try_from(data[0])?.dispatch(program_id, accounts, data): the
\* variant obtained from byte 0 selects the handler.
Dispatch ==
    /\ proc.pc = "idle"
    /\ \E registry \in Registries, data \in InstructionData, base \in Bases :
          /\ Len(data) > 0 /\ IsOk(try_from(data[1], registry))
          /\ LET r == dispatch_route(registry[data[1]], data) IN
             proc' = [proc EXCEPT !.data = data, !.base = base, !.registry = registry,
                                  !.handler = r.handler, !.offset = r.offset,
                                  !.start = accounts, !.entry = "dispatch",
                                  !.pc = "decode", !.outcome = r.res]
    /\ UNCHANGED <<accounts, live, last, before, shard>>

\* let params = parse_params::<Self::Params>(data)?;
Decode ==
    /\ proc.pc = "decode"
    /\ \E d \in parse_params(SubSeq(proc.data, proc.offset + 1, Len(proc.data)),
                             proc.base + proc.offset, proc.handler) :
          proc' = [proc EXCEPT !.params = d.value,
                               !.trace = Append(@, Ran("decode", d.res)),
                               !.pc = process_next("decode", d.res),
                               !.outcome = d.res]
    /\ UNCHANGED <<accounts, live, last, before, shard>>

\* let ctx = Self::build(accounts, &params)?;
Build ==
    /\ proc.pc = "build"
    /\ \E plan \in Plans(proc.handler) :
          LET b == build(accounts, plan) IN
          /\ accounts' = b.accounts
          /\ proc' = [proc EXCEPT !.plan = plan, !.ctx = b.ctx,
                                  !.trace = Append(@, Ran("build", b.res)),
                                  !.pc = process_next("build", b.res),
                                  !.outcome = b.res]
    /\ UNCHANGED <<live, last, before, shard>>

\* ctx.validate(program_id, &params)?;
Validate ==
    /\ proc.pc = "validate"
    /\ \E ok \in BOOLEAN :
          LET r == validate(proc.handler, accounts, proc.ctx, proc.params, ok) IN
          proc' = [proc EXCEPT !.trace = Append(@, Ran("validate", r)),
                               !.pc = process_next("validate", r),
                               !.outcome = r]
    /\ UNCHANGED <<accounts, live, last, before, shard>>

\* ctx.execute(program_id, &params)
Execute ==
    /\ proc.pc = "execute"
    /\ LET e == execute(proc.handler, accounts, proc.ctx, proc.params) IN
          /\ accounts' = e.accounts
          /\ proc' = [proc EXCEPT !.trace = Append(@, Ran("execute", e.res)),
                                  !.pc = process_next("execute", e.res),
                                  !.outcome = e.res]
    /\ UNCHANGED <<live, last, before, shard>>

NextProc == Process \/ Decode \/ Build \/ Validate \/ Execute

SpecProc == InitProc /\ [][NextProc]_vars

\* Both generated entry points.
SpecDispatch == InitProc /\ [][NextProc \/ Dispatch]_vars

\* ---------------------------------------------------- shard triplet context

\* The three logical positions; a position is an index into this.
Positions == <<"low", "current", "high">>

\* CurrentRef and HighRef. An AccountRefMut is named by the reference
\* (&AccountView, a slot of the account list) it was loaded from.
Owned(info) == [tag |-> "Owned", info |-> info]
AliasLow == [tag |-> "AliasLow", info |-> 0]
AliasCurrent == [tag |-> "AliasCurrent", info |-> 0]

\* Result of new and try_new: the loads made (one round of validation each)
\* and the context, if there is one.
NewOut(r, loads, ctx) == [res |-> r, loads |-> loads, ctx |-> ctx]
Context(low, cur, high) == [low |-> low, current_ref |-> cur, high_ref |-> high]

\* ShardRefMutContext::new that loads high whenever it is not low (a mutant).
ShardRefMutContext_new_high_twice(infos, low_info, current_info, high_info) ==
    LET low == AccountRefMut_load(infos[low_info], "Wallet")
        current == AccountRefMut_load(infos[current_info], "Wallet")
        high == AccountRefMut_load(infos[high_info], "Wallet")
        low_current_same == low_info = current_info
        low_high_same == low_info = high_info
        current_ref == IF low_current_same THEN AliasLow ELSE Owned(current_info)
        loaded == IF low_current_same THEN <<low_info>> ELSE <<low_info, current_info>>
    IN  IF ~IsOk(low.res) THEN NewOut(low.res, <<low_info>>, <<>>)
        ELSE IF ~low_current_same /\ ~IsOk(current.res)
             THEN NewOut(current.res, loaded, <<>>)
        ELSE IF low_high_same
             THEN NewOut(Ok, loaded, Context(low_info, current_ref, AliasLow))
        ELSE IF ~IsOk(high.res) THEN NewOut(high.res, Append(loaded, high_info), <<>>)
        ELSE NewOut(Ok, Append(loaded, high_info),
                    Context(low_info, current_ref, Owned(high_info)))

\* ShardRefMutContext::new. infos maps a reference to the account it points
\* to; ptr::eq is equality of references.
ShardRefMutContext_new(infos, low_info, current_info, high_info) ==
    LET low == AccountRefMut_load(infos[low_info], "Wallet")
        current == AccountRefMut_load(infos[current_info], "Wallet")
        high == AccountRefMut_load(infos[high_info], "Wallet")
        low_current_same == low_info = current_info
        low_high_same == low_info = high_info
        current_high_same == current_info = high_info
        current_ref == IF low_current_same THEN AliasLow ELSE Owned(current_info)
        loaded == IF low_current_same THEN <<low_info>> ELSE <<low_info, current_info>>
    IN  IF ~IsOk(low.res) THEN NewOut(low.res, <<low_info>>, <<>>)
        ELSE IF ~low_current_same /\ ~IsOk(current.res)
             THEN NewOut(current.res, loaded, <<>>)
        ELSE IF low_high_same
             THEN NewOut(Ok, loaded, Context(low_info, current_ref, AliasLow))
        ELSE IF current_high_same
             THEN NewOut(Ok, loaded, Context(low_info, current_ref, AliasCurrent))
        ELSE IF ~IsOk(high.res) THEN NewOut(high.res, Append(loaded, high_info), <<>>)
        ELSE NewOut(Ok, Append(loaded, high_info),
                    Context(low_info, current_ref, Owned(high_info)))

\* ShardRefMutContext::try_new
ShardRefMutContext_try_new(infos, low_info, current_info, high_info) ==
    LET low == AccountRefMut_try_load(infos[low_info], "Wallet")
        current == AccountRefMut_try_load(infos[current_info], "Wallet")
        high == AccountRefMut_try_load(infos[high_info], "Wallet")
        low_current_same == low_info = current_info
        low_high_same == low_info = high_info
        current_high_same == current_info = high_info
        current_ref == IF low_current_same THEN AliasLow ELSE Owned(current_info)
        loaded == IF low_current_same THEN <<low_info>> ELSE <<low_info, current_info>>
    IN  IF ~IsOk(low.res) THEN NewOut(Err("None"), <<low_info>>, <<>>)
        ELSE IF ~low_current_same /\ ~IsOk(current.res)
             THEN NewOut(Err("None"), loaded, <<>>)
        ELSE IF low_high_same
             THEN NewOut(Ok, loaded, Context(low_info, current_ref, AliasLow))
        ELSE IF current_high_same
             THEN NewOut(Ok, loaded, Context(low_info, current_ref, AliasCurrent))
        ELSE IF ~IsOk(high.res) THEN NewOut(Err("None"), Append(loaded, high_info), <<>>)
        ELSE NewOut(Ok, Append(loaded, high_info),
                    Context(low_info, current_ref, Owned(high_info)))

\* ShardRefContext::new: prev, current and next are loaded one after the
\* other, each into a field of its own.
ShardRefContext_new(infos, prev_info, current_info, next_info) ==
    LET prev == AccountRefMut_load(infos[prev_info], "Wallet")
        current == AccountRefMut_load(infos[current_info], "Wallet")
        next == AccountRefMut_load(infos[next_info], "Wallet")
    IN  IF ~IsOk(prev.res) THEN NewOut(prev.res, <<prev_info>>, <<>>)
        ELSE IF ~IsOk(current.res)
             THEN NewOut(current.res, <<prev_info, current_info>>, <<>>)
        ELSE IF ~IsOk(next.res)
             THEN NewOut(next.res, <<prev_info, current_info, next_info>>, <<>>)
        ELSE NewOut(Ok, <<prev_info, current_info, next_info>>,
                    Context(prev_info, Owned(current_info), Owned(next_info)))

\* ShardRefMutContext::from_loaded: the three accessors the caller loaded
\* become low and the owned current and high, without any comparison.
ShardRefMutContext_from_loaded(low, current, high) ==
    NewOut(Ok, <<low, current, high>>, Context(low, Owned(current), Owned(high)))

\* current_ref: the AccountRefMut behind current
current_ref(ctx) ==
    IF ctx.current_ref.tag = "Owned" THEN ctx.current_ref.info ELSE ctx.low

\* current_ref_mut
current_ref_mut(ctx) ==
    IF ctx.current_ref.tag = "Owned" THEN ctx.current_ref.info ELSE ctx.low

\* high_ref
high_ref(ctx) ==
    CASE ctx.high_ref.tag = "Owned" -> ctx.high_ref.info
      [] ctx.high_ref.tag = "AliasLow" -> ctx.low
      [] ctx.high_ref.tag = "AliasCurrent" -> current_ref(ctx)

\* high_ref_mut that takes every alias for an alias of low.
high_ref_mut_alias_low(ctx) ==
    IF ctx.high_ref.tag = "Owned" THEN ctx.high_ref.info ELSE ctx.low

\* high_ref_mut
high_ref_mut(ctx) ==
    IF ctx.high_ref.tag = "Owned" THEN ctx.high_ref.info
    ELSE IF ctx.high_ref.tag = "AliasLow" THEN ctx.low
    ELSE IF ctx.current_ref.tag = "Owned" THEN ctx.current_ref.info
    ELSE ctx.low

\* The AccountRefMut behind a position: low(), current(), high()
position_ref(ctx, pos) ==
    CASE Positions[pos] = "low" -> ctx.low
      [] Positions[pos] = "current" -> current_ref(ctx)
      [] Positions[pos] = "high" -> high_ref(ctx)

\* low_mut(), current_mut(), high_mut(), and the elements of all_mut()
position_ref_mut(ctx, pos) ==
    CASE Positions[pos] = "low" -> ctx.low
      [] Positions[pos] = "current" -> current_ref_mut(ctx)
      [] Positions[pos] = "high" -> high_ref_mut(ctx)

\* The accounts a shard instruction is given: a shard of the program, one
\* that is not writable, one of another program, one of another type.
ShardAccounts ==
    {DefaultAccount,
     [DefaultAccount EXCEPT !.is_writable = FALSE],
     [DefaultAccount EXCEPT !.owner = OTHER_PROGRAM_ID],
     [DefaultAccount EXCEPT !.data[1] = CounterDISCRIMINATOR]}

\* The account list of the instruction: slot s refers to account m[s]. The
\* host gives every position of the list a slot of its own, and the slots
\* of an account that the instruction names more than once refer to the
\* same account.
SlotMaps == {m \in [1..NAcc -> 1..NAcc] : \A s \in 1..NAcc : m[s] <= s}

InitShard ==
    /\ accounts \in [1..NAcc -> ShardAccounts]
    /\ live = {}
    /\ last = NoCall
    /\ before = accounts
    /\ proc = IdleProc
    /\ \E m \in SlotMaps : shard = [NoShard EXCEPT !.slots = m]

\* What each reference (slot) points to.
Infos == [s \in DOMAIN shard.slots |-> accounts[shard.slots[s]]]

Constructed(op, args, out) ==
    /\ shard.op = "none"
    /\ shard' = [shard EXCEPT !.op = op, !.args = args, !.res = out.res,
                              !.loads = out.loads, !.ctx = out.ctx]
    /\ UNCHANGED <<accounts, live, last, before, proc>>

ShardNew ==
    \E l \in 1..NAcc, c \in 1..NAcc, h \in 1..NAcc :
        Constructed("new", <<l, c, h>>, ShardRefMutContext_new(Infos, l, c, h))

ShardTryNew ==
    \E l \in 1..NAcc, c \in 1..NAcc, h \in 1..NAcc :
        Constructed("try_new", <<l, c, h>>, ShardRefMutContext_try_new(Infos, l, c, h))

\* ShardRefContext::new(prev, current, next); its fields prev, current and
\* next are the positions low, current and high of the context.
ShardRefNew ==
    \E l \in 1..NAcc, c \in 1..NAcc, h \in 1..NAcc :
        Constructed("ShardRefContext::new", <<l, c, h>>,
                    ShardRefContext_new(Infos, l, c, h))

\* ShardRefMutContext::from_loaded on three AccountRefMut that the caller
\* loaded from the references l, c and h.
ShardFromLoaded ==
    \E l \in 1..NAcc, c \in 1..NAcc, h \in 1..NAcc :
        /\ \A info \in {l, c, h} : IsOk(AccountRefMut_load(Infos[info], "Wallet").res)
        /\ Constructed("from_loaded", <<l, c, h>>,
                       ShardRefMutContext_from_loaded(l, c, h))

\* The ways to reach the data of a position: low_mut() / current_mut() /
\* high_mut() (and low() / current() / high() to read), an element of the
\* tuple all_mut() returned, an element of the tuple all_data_mut() returned.
Ways == {"position", "all_mut", "all_data_mut"}

\* A write through a position: balance += 1.
ShardWrite ==
    /\ shard.op # "none" /\ IsOk(shard.res) /\ shard.w = NoAccess
    /\ \E pos \in DOMAIN Positions, via \in Ways :
          LET h == shard.slots[position_ref_mut(shard.ctx, pos)] IN
          /\ via = "all_data_mut" => shard.op # "ShardRefContext::new"
          /\ accounts' = [accounts EXCEPT ![h] = set_balance(@, balance(@) + 1)]
          /\ shard' = [shard EXCEPT
                 !.old = [q \in DOMAIN Positions |->
                            balance(accounts[shard.slots[position_ref(shard.ctx, q)]])],
                 !.w = [pos |-> pos, via |-> via, value |-> balance(accounts[h]) + 1]]
    /\ UNCHANGED <<live, last, before, proc>>

\* What a read through position pos can yield after the write w. low_mut /
\* current_mut / high_mut borrow the whole context, so the write is over
\* before the read starts and the read yields the memory as it is. Two
\* elements of one tuple of all_mut / all_data_mut that point to the same
\* memory are two exclusive references alive together, which is undefined
\* behaviour: the read yields the memory as it is, or what it held before
\* the write.
observe(accs, sh, pos) ==
    LET writer == position_ref_mut(sh.ctx, sh.w.pos)
        reader == IF sh.w.via = "position" THEN position_ref(sh.ctx, pos)
                  ELSE position_ref_mut(sh.ctx, pos)
        memory == balance(accs[sh.slots[reader]])
    IN  IF sh.w.via = "position" THEN {memory}
        ELSE IF sh.slots[reader] # sh.slots[writer] THEN {memory}
        ELSE IF pos = sh.w.pos THEN {memory}
        ELSE {memory, sh.old[pos]}

\* A read through a position, after the write.
ShardRead ==
    /\ shard.w # NoAccess /\ shard.r = NoAccess
    /\ \E pos \in DOMAIN Positions : \E v \in observe(accounts, shard, pos) :
          shard' = [shard EXCEPT !.r = [pos |-> pos, via |-> shard.w.via, value |-> v]]
    /\ UNCHANGED <<accounts, live, last, before, proc>>

NextShard ==
    ShardNew \/ ShardTryNew \/ ShardFromLoaded \/ ShardRefNew \/ ShardWrite \/ ShardRead

SpecShard == InitShard /\ [][NextShard]_vars

\* ------------------------------------------- validated-identity wrappers

\* The well-known identity (or identities) each program and sysvar wrapper
\* compares the address of the handle with.
Identities ==
    [SystemProgram |-> {SYSTEM_PROGRAM_ID},
     TokenProgram |-> {"Token", "Token2022"},
     AtaProgram |-> {"AssociatedToken"},
     AltProgram |-> {"AddressLookupTable"},
     ClockSysvar |-> {"Clock"},
     RentSysvar |-> {"Rent"},
     SlotHashesSysvar |-> {"SlotHashes"},
     InstructionsSysvar |-> {"Instructions"},
     RecentBlockhashesSysvar |-> {"RecentBlockhashes"},
     LastRestartSlotSysvar |-> {"LastRestartSlot"}]

\* MutSigner::wrap with the two checks in the other order.
wrap_writable_first(W, info) ==
    CASE W = "Signer" ->
           IF ~info.is_signer THEN Out(Err("MissingRequiredSignature"), info)
           ELSE Out(Ok, info)
      [] W = "MutSigner" ->
           IF ~info.is_writable THEN Out(Err("InvalidAccountData"), info)
           ELSE IF ~info.is_signer THEN Out(Err("MissingRequiredSignature"), info)
           ELSE Out(Ok, info)
      [] W = "Writable" ->
           IF ~info.is_writable THEN Out(Err("InvalidAccountData"), info)
           ELSE Out(Ok, info)
      [] W = "ReadOnly" -> Out(Ok, info)
      [] OTHER ->
           IF info.address \notin Identities[W]
           THEN Out(Err("IncorrectProgramId"), info)
           ELSE Out(Ok, info)

\* ValidatedAccount::wrap of the wrapper W.
wrap(W, info) ==
    CASE W = "Signer" ->
           IF ~info.is_signer THEN Out(Err("MissingRequiredSignature"), info)
           ELSE Out(Ok, info)
      [] W = "MutSigner" ->
           IF ~info.is_signer THEN Out(Err("MissingRequiredSignature"), info)
           ELSE IF ~info.is_writable THEN Out(Err("InvalidAccountData"), info)
           ELSE Out(Ok, info)
      [] W = "Writable" ->
           IF ~info.is_writable THEN Out(Err("InvalidAccountData"), info)
           ELSE Out(Ok, info)
      [] W = "ReadOnly" -> Out(Ok, info)
      [] OTHER ->
           IF info.address \notin Identities[W]
           THEN Out(Err("IncorrectProgramId"), info)
           ELSE Out(Ok, info)

\* One handle with any flags, an owner, and any address: a well-known one,
\* or another.
InitWrap ==
    /\ \E s \in BOOLEAN, w \in BOOLEAN,
          o \in {PROGRAM_ID, SYSTEM_PROGRAM_ID, "AddressLookupTable"},
          a \in UNION {Identities[W] : W \in DOMAIN Identities} \cup {PROGRAM_ID} :
          accounts = [h \in 1..NHandles |->
                        [DefaultAccount EXCEPT !.is_signer = s, !.is_writable = w,
                                               !.owner = o]
                            @@ [address |-> a]]
    /\ live = {}
    /\ last = NoCall
    /\ before = accounts
    /\ proc = IdleProc
    /\ shard = NoShard

\* W::wrap(info) on handle h.
Wrap(h, W) == Construct(W \o "::wrap", "none", h, W, wrap(W, accounts[h]))

SpecWrap ==
    InitWrap /\ [][\E h \in Handles,
                     W \in {"Signer", "MutSigner", "Writable", "ReadOnly"}
                           \cup DOMAIN Identities : Wrap(h, W)]_vars

\* ------------------------------------------------- interface metadata

\* analyze_field_type: the (is_signer, is_writable) flags the #[instruction]
\* macro emits for a field of the named type.
analyze_field_type ==
    LET flags(s, w) == [is_signer |-> s, is_writable |-> w]
    IN  [Signer |-> flags(TRUE, FALSE),
         MutSigner |-> flags(TRUE, TRUE),
         Payer |-> flags(TRUE, TRUE),
         AccountRefMut |-> flags(FALSE, TRUE),
         Writable |-> flags(FALSE, TRUE),
         AccountRef |-> flags(FALSE, FALSE),
         ReadOnly |-> flags(FALSE, FALSE),
         Lut |-> flags(FALSE, TRUE),
         SystemProgram |-> flags(FALSE, FALSE),
         TokenProgram |-> flags(FALSE, FALSE),
         AtaProgram |-> flags(FALSE, FALSE),
         AltProgram |-> flags(FALSE, FALSE),
         ShardRefContext |-> flags(FALSE, FALSE),
         ShardRefMutContext |-> flags(FALSE, TRUE)]

\* Lut::wrap: a system-owned account is a table not created yet, an account
\* of the address lookup table program is a table.
Lut_wrap(info) ==
    IF info.owner = SYSTEM_PROGRAM_ID THEN Out(Ok, info)
    ELSE IF info.owner = "AddressLookupTable" THEN Out(Ok, info)
    ELSE Out(Err("IllegalOwner"), info)

\* The runtime constructor of a field of the named type, on one handle (the
\* shard contexts: on the same handle for their three positions).
field_constructor(type_name, info) ==
    CASE type_name = "Payer" -> wrap("Signer", info)
      [] type_name = "AccountRefMut" -> AccountRefMut_load(info, "Wallet")
      [] type_name = "AccountRef" -> AccountRef_load(info, "Wallet")
      [] type_name = "Lut" -> Lut_wrap(info)
      [] type_name = "ShardRefContext" ->
           Out(ShardRefContext_new(<<info>>, 1, 1, 1).res, info)
      [] type_name = "ShardRefMutContext" ->
           Out(ShardRefMutContext_new(<<info>>, 1, 1, 1).res, info)
      [] OTHER -> wrap(type_name, info)

\* The fields of an instruction struct are constructed from their handles.
SpecMeta ==
    InitWrap /\ [][\E h \in Handles, type_name \in DOMAIN analyze_field_type :
                     Construct("field " \o type_name, "none", h, type_name,
                               field_constructor(type_name, accounts[h]))]_vars

\* ------------------------------------------------------------- vaults

\* Vault::wrap: owned by a token program, and bytes 32..64 of the data, the
\* token-owner field, are the expected authority.
Vault_wrap(info, expected_authority) ==
    IF info.owner \notin Identities.TokenProgram THEN Out(Err("IllegalOwner"), info)
    ELSE IF Len(info.data) < 64 THEN Out(Err("InvalidAccountData"), info)
    ELSE IF SubSeq(info.data, 33, 64) # expected_authority
         THEN Out(Err("InvalidAccountData"), info)
    ELSE Out(Ok, info)

\* Vault::amount: data[64..72] panics on a buffer shorter than 72 bytes;
\* otherwise the eight bytes are read as a little-endian u64.
Vault_amount(info) ==
    IF Len(info.data) < 72 THEN [res |-> Abort, value |-> 0]
    ELSE [res |-> Ok, value |-> from_le_bytes(SubSeq(info.data, 65, 72))]

\* The authorities a vault is expected to have: the all-zero address and
\* another one.
Authorities == {Zeros(32), [i \in 1..32 |-> 7]}

\* The accounts a vault handle can refer to: a token account (mint, owner,
\* amount, then the rest of its 165 bytes), and an account that was created
\* with some number of zero bytes and assigned to its owner.
VaultAccounts ==
    {AccountView(o, TRUE, FALSE, d) :
        o \in Identities.TokenProgram \cup {PROGRAM_ID},
        d \in {Zeros(32) \o a \o to_le_bytes(b) \o Zeros(93) :
                  a \in Authorities, b \in {0, 300, 500}}
              \cup {Zeros(n) : n \in {0, 63, 64, 71, 72}}}

InitVault ==
    /\ accounts \in [1..NHandles -> VaultAccounts]
    /\ live = {}
    /\ last = NoCall
    /\ before = accounts
    /\ proc = IdleProc
    /\ shard = NoShard

\* Vault::wrap(info, expected_authority) on handle h.
VaultWrap(h) ==
    \E expected_authority \in Authorities :
        Construct("Vault::wrap", "Vault", h, expected_authority,
                  Vault_wrap(accounts[h], expected_authority))

\* vault.amount() on a Vault that is alive.
VaultAmount(a) ==
    /\ a.kind = "Vault"
    /\ Method("Vault::amount", a, Vault_amount(accounts[a.h]).res)
    /\ UNCHANGED live

SpecVault ==
    InitVault /\ [][\/ \E h \in Handles : VaultWrap(h)
                    \/ \E a \in live : VaultAmount(a)
                    \/ Drop]_vars

\* ------------------------------------------------- claims on the accessors

\* The account the last constructor call was made on, before and after it.
Pre == before[last.h]
Post == accounts[last.h]
\* Length and discriminator byte of the account are those of type T.
ValidData(info, T) == Len(info.data) >= LEN(T) /\ info.data[1] = DISCRIMINATOR(T)

\* C6: AccountRef::load succeeds iff owner == F::PROGRAM_ID, length >= T::LEN
\* and data[0] == T::DISCRIMINATOR; otherwise it returns the error of the
\* first failing check in the order owner (IllegalOwner), length
\* (InvalidAccountData), discriminator (InvalidAccountData). Account::load and
\* Account::load_mut fail with InvalidAccountData on a short buffer or a wrong
\* byte 0. None of them turns such a buffer into a typed view or changes it.
C6_LoadContract ==
    /\ last.op = "AccountRef::load" =>
          /\ IsOk(last.res) <=> (Pre.owner = PROGRAM_ID /\ ValidData(Pre, last.T))
          /\ Pre.owner # PROGRAM_ID => last.res = Err("IllegalOwner")
          /\ Pre.owner = PROGRAM_ID /\ ~ValidData(Pre, last.T)
                => last.res = Err("InvalidAccountData")
          /\ IsOk(last.res)
                => Accessor("AccountRef", last.h, last.T, Via(last.op), Len(Post.data)) \in live
          /\ accounts = before
    /\ last.op \in {"Account::load", "Account::load_mut"} =>
          /\ IsOk(last.res) <=> ValidData(Pre, last.T)
          /\ ~ValidData(Pre, last.T) => last.res = Err("InvalidAccountData")
          /\ accounts = before

\* C6 witness: load refused a buffer of the program, long enough, whose
\* byte 0 is the discriminator of another type.
C6_Witness ==
    /\ last.op = "AccountRef::load"
    /\ last.res = Err("InvalidAccountData")
    /\ Pre.owner = PROGRAM_ID
    /\ Len(Pre.data) >= LEN(last.T)
    /\ Pre.data[1] # DISCRIMINATOR(last.T)

C8_WritableFirst ==
    last.op = "AccountRefMut::load" /\ ~Pre.is_writable
        => /\ last.res = Err("InvalidAccountData")
           /\ accounts = before

\* C8 witness: load was called on a handle that is not writable and is owned
\* by another program.
C8_Witness ==
    /\ last.op = "AccountRefMut::load"
    /\ ~Pre.is_writable
    /\ Pre.owner # PROGRAM_ID
    /\ last.res = Err("InvalidAccountData")

C10_InitIfNeededOwned ==
    last.op = "AccountRefMut::init_if_needed" /\ IsOk(last.res) /\ ~is_uninit(Pre)
        => Post.owner = PROGRAM_ID

\* --------------------------------------------- claims on the instruction protocol

PhaseOrder == <<"decode", "build", "validate", "execute">>
Phases == {"decode", "build", "validate", "execute"}
\* The instruction failed in the given phase.
FailedIn(phase) ==
    /\ proc.pc = "done"
    /\ Len(proc.trace) > 0
    /\ proc.trace[Len(proc.trace)].phase = phase
    /\ ~IsOk(proc.trace[Len(proc.trace)].res)

\* C1: the phases of Instruction::process run in the order decode, build,
\* validate, execute, each at most once; a phase runs only after the one
\* before it returned Ok; no phase is skipped: a call that returns Ok ran all
\* four, a call that fails returns the error of the last phase it ran.
C1_PhaseOrder ==
    /\ Len(proc.trace) <= Len(PhaseOrder)
    /\ \A i \in 1..Len(proc.trace) :
          /\ proc.trace[i].phase = PhaseOrder[i]
          /\ i < Len(proc.trace) => IsOk(proc.trace[i].res)
    /\ proc.pc \in Phases =>
          /\ proc.pc = PhaseOrder[Len(proc.trace) + 1]
          /\ \A i \in 1..Len(proc.trace) : IsOk(proc.trace[i].res)
    /\ proc.pc = "done" /\ proc.handler # "none" =>
          /\ Len(proc.trace) >= 1
          /\ proc.outcome = proc.trace[Len(proc.trace)].res
          /\ IsOk(proc.outcome) => Len(proc.trace) = Len(PhaseOrder)

\* C1 witness: a Transfer ran all four phases and returned Ok.
C1_Witness ==
    /\ proc.pc = "done"
    /\ proc.handler = "Transfer"
    /\ IsOk(proc.outcome)
    /\ Len(proc.trace) = Len(PhaseOrder)

\* C2: whenever build returns an error, no byte of any account differs from
\* its value at the start of the instruction.
C2_BuildFailureBeforeMutation ==
    FailedIn("build") => accounts = proc.start

\* The build makes no accessor with init or init_if_needed.
OnlyLoads(plan) ==
    \A i \in 1..Len(plan) :
        plan[i] \notin {"AccountRefMut::init", "AccountRefMut::init_if_needed"}

C4_Unroutable ==
    (proc.pc # "idle"
        /\ (Len(proc.data) = 0 \/ proc.data[1] \notin DOMAIN proc.registry)) =>
          /\ proc.pc = "done"
          /\ proc.outcome = Err("InvalidInstructionData")
          /\ proc.handler = "none"
          /\ proc.trace = <<>>
          /\ accounts = proc.start

\* C4 witness: discriminant 2 came in and is not registered.
C4_Witness ==
    /\ proc.pc = "done"
    /\ Len(proc.data) > 0
    /\ proc.data[1] = 2
    /\ 2 \notin DOMAIN proc.registry

\* The instruction buffer is long enough for the handler's Parameter Block
\* after byte 0.
LongEnough == Len(proc.data) - 1 >= size_of(proc.handler)

\* C5: a buffer whose byte 0 is a registered discriminant d reaches the
\* handler registered for d with the Parameter Block decoded from the bytes
\* after byte 0; [2, 1000 as 8 little-endian bytes] against {Initialize = 0,
\* Transfer = 2} reaches Transfer with params.amount == 1000.
C5_RoutedAndDecoded ==
    (proc.pc # "idle" /\ Len(proc.data) > 0
        /\ proc.data[1] \in DOMAIN proc.registry) =>
          /\ proc.handler = proc.registry[proc.data[1]]
          /\ (Len(proc.trace) >= 1 /\ LongEnough) =>
                /\ IsOk(proc.trace[1].res)
                /\ proc.params =
                      read_params(proc.handler, SubSeq(proc.data, 2, Len(proc.data)))
          /\ (Len(proc.trace) >= 1 /\ proc.data = <<2>> \o to_le_bytes(1000)
                 /\ 2 \in DOMAIN proc.registry) =>
                /\ proc.handler = "Transfer"
                /\ proc.pc = "build" \/ Len(proc.trace) >= 2
                /\ proc.params = 1000

\* ------------------------------- claims on try_load and on initialization

\* C11: AccountRefMut::try_load returns Some iff AccountRefMut::load returns
\* Ok on the same handle state, that is iff the handle is writable, owned by
\* F::PROGRAM_ID, long enough and of the right discriminator; every failure
\* of load is None, never an error, and the account is left as it was.
C11_TryLoadIsLoad ==
    last.op = "AccountRefMut::try_load" =>
        /\ IsOk(last.res) <=> IsOk(AccountRefMut_load(Pre, last.T).res)
        /\ IsOk(last.res) <=>
              (Pre.is_writable /\ Pre.owner = PROGRAM_ID /\ ValidData(Pre, last.T))
        /\ ~IsOk(last.res) => last.res = Err("None")
        /\ accounts = before

\* C11 witness: try_load returned None on a writable handle with valid data
\* that another program owns (load fails with IllegalOwner there).
C11_Witness ==
    /\ last.op = "AccountRefMut::try_load"
    /\ last.res = Err("None")
    /\ Pre.is_writable
    /\ Pre.owner = OTHER_PROGRAM_ID
    /\ ValidData(Pre, last.T)
    /\ AccountRefMut_load(Pre, last.T).res = Err("IllegalOwner")

\* C12: init has exactly-once semantics: a second init that immediately
\* follows a successful init on the same handle fails with
\* AccountAlreadyInitialized.
C12_InitExactlyOnce ==
    [][(/\ last.op = "AccountRefMut::init" /\ IsOk(last.res)
        /\ last'.op = "AccountRefMut::init" /\ last'.h = last.h)
          => last'.res = Err("AccountAlreadyInitialized")]_vars

\* C13 as claimed: init_if_needed called twice in a row on the same writable
\* handle of sufficient length succeeds both times, and the second call
\* leaves every byte as the first call left it.
C13_InitIfNeededTwice ==
    (/\ last.op = "AccountRefMut::init_if_needed"
     /\ Pre.is_writable
     /\ Len(Pre.data) >= LEN(last.T))
       => IsOk(last.res) /\ (last.again => accounts = before)

\* C13 amended: on a writable handle of sufficient length that is
\* uninitialized, or whose byte 0 is already T::DISCRIMINATOR,
\* init_if_needed::<T> succeeds; and whenever it succeeded, an immediately
\* following init_if_needed::<T> on the same handle succeeds too and leaves
\* the discriminator byte and every other byte of the account as the first
\* call left them. On a writable handle of sufficient length that is
\* initialized with another discriminator it fails with InvalidAccountData.
C13_InitIfNeededIdempotent ==
    last.op = "AccountRefMut::init_if_needed" =>
        /\ (/\ Pre.is_writable /\ Len(Pre.data) >= LEN(last.T)
            /\ (is_uninit(Pre) \/ Pre.data[1] = DISCRIMINATOR(last.T)))
              => IsOk(last.res) /\ Post.data[1] = DISCRIMINATOR(last.T)
        /\ (/\ Pre.is_writable /\ Len(Pre.data) >= LEN(last.T)
            /\ ~is_uninit(Pre) /\ Pre.data[1] # DISCRIMINATOR(last.T))
              => last.res = Err("InvalidAccountData") /\ accounts = before
        /\ last.again => IsOk(last.res) /\ accounts = before

\* C13 witness: the second of two init_if_needed calls in a row, on an
\* account of the program that the first call initialized or found
\* initialized, succeeded and changed nothing.
C13_Witness ==
    /\ last.op = "AccountRefMut::init_if_needed"
    /\ last.again
    /\ IsOk(last.res)
    /\ Pre.owner = PROGRAM_ID
    /\ Post.data[1] = DISCRIMINATOR(last.T)
    /\ accounts = before

\* The account is uninitialized: the system program owns it, or the program
\* owns it and its discriminator byte is 0 (an empty buffer has no byte that
\* is not 0).
Uninitialized(info) ==
    \/ info.owner = SYSTEM_PROGRAM_ID
    \/ info.owner = PROGRAM_ID /\ (Len(info.data) = 0 \/ info.data[1] = 0)

\* C14: AccountRefMut::init succeeds iff the handle is writable, the account
\* is uninitialized and data length >= T::LEN; on success data[0] ==
\* T::DISCRIMINATOR afterwards and no other byte changed; on failure the
\* error is that of the first failing check in the order writable
\* (InvalidAccountData), uninitialized (AccountAlreadyInitialized), length
\* (InvalidAccountData), and the account is as it was.
C14_InitContract ==
    last.op = "AccountRefMut::init" =>
        /\ IsOk(last.res) <=>
              (Pre.is_writable /\ Uninitialized(Pre) /\ Len(Pre.data) >= LEN(last.T))
        /\ IsOk(last.res) =>
              /\ Post.data[1] = DISCRIMINATOR(last.T)
              /\ Post = [Pre EXCEPT !.data[1] = DISCRIMINATOR(last.T)]
              /\ Accessor("AccountRefMut", last.h, last.T, Via(last.op), Len(Post.data)) \in live
        /\ ~Pre.is_writable => last.res = Err("InvalidAccountData")
        /\ Pre.is_writable /\ ~Uninitialized(Pre)
              => last.res = Err("AccountAlreadyInitialized")
        /\ Pre.is_writable /\ Uninitialized(Pre) /\ Len(Pre.data) < LEN(last.T)
              => last.res = Err("InvalidAccountData")
        /\ ~IsOk(last.res) => accounts = before

\* C14 witness: init refused a writable account that is both initialized
\* and too short with AccountAlreadyInitialized, the earlier of the two
\* failing checks.
C14_Witness ==
    /\ last.op = "AccountRefMut::init"
    /\ Pre.is_writable
    /\ ~Uninitialized(Pre)
    /\ Len(Pre.data) < LEN(last.T)
    /\ last.res = Err("AccountAlreadyInitialized")

\* The account is Initialized: the program owns it and its discriminator
\* byte is not 0.
Initialized(info) ==
    info.owner = PROGRAM_ID /\ Len(info.data) > 0 /\ info.data[1] # 0

\* The calls of this layer that C15 is about.
LayerCalls ==
    {"AccountRef::load", "AccountRef::load_unchecked", "AccountRefMut::load",
     "AccountRefMut::try_load", "AccountRefMut::load_unchecked",
     "AccountRefMut::init", "AccountRefMut::init_if_needed",
     "AccountRefMut::reload"}

\* C15: there is no transition back to Uninitialized: a load, try_load,
\* load_unchecked, init, init_if_needed or reload call leaves every
\* Initialized account (owner == F::PROGRAM_ID, data[0] != 0) Initialized
\* and its discriminator byte as it was.
C15_NoWayBack ==
    [][\A h \in Handles :
          Initialized(accounts[h]) /\ last'.op \in LayerCalls
             => /\ Initialized(accounts'[h])
                /\ accounts'[h].data[1] = accounts[h].data[1]]_vars

\* C15 witness: init for another type was called on an Initialized account;
\* it was refused and the account is Initialized with the same
\* discriminator byte.
C15_Witness ==
    /\ last.op = "AccountRefMut::init"
    /\ Pre.is_writable
    /\ Initialized(Pre)
    /\ Pre.data[1] # DISCRIMINATOR(last.T)
    /\ last.res = Err("AccountAlreadyInitialized")
    /\ Initialized(Post)
    /\ Post.data[1] = Pre.data[1]

\* C16: among init, init_if_needed and init_pda only init_pda invokes a
\* sub-program, in a fixed order: a handle that is not writable fails with
\* InvalidAccountData before any invocation; on a writable handle the
\* account creation is invoked; if it fails its error is returned and no
\* account byte is written; the discriminator is written only after the
\* creation succeeded.
C16_InitPdaOrder ==
    /\ last.op \in {"AccountRefMut::init", "AccountRefMut::init_if_needed"}
          => last.cpi = NoCpi
    /\ last.op = "AccountRefMut::init_pda" =>
          /\ ~Pre.is_writable =>
                last.res = Err("InvalidAccountData") /\ last.cpi = NoCpi
                /\ accounts = before
          /\ Pre.is_writable => last.cpi # NoCpi
          /\ ~IsOk(last.cpi) /\ last.cpi # NoCpi =>
                last.res = last.cpi /\ accounts = before
          /\ accounts # before => IsOk(last.cpi)
          /\ IsOk(last.cpi) /\ last.res # Abort =>
                Post.data[1] = DISCRIMINATOR(last.T) /\ Len(Pre.data) = 0

\* C16 witness: init_pda on a writable handle invoked the creation, which
\* failed; its error came back and the account is as it was.
C16_Witness ==
    /\ last.op = "AccountRefMut::init_pda"
    /\ Pre.is_writable
    /\ last.cpi = Err("MissingRequiredSignature")
    /\ last.res = Err("MissingRequiredSignature")
    /\ accounts = before

\* C17: get() is infallible post-construction: a get (or get_mut) on an
\* accessor that a successful constructor returned never fails or aborts,
\* at any later point of the accessor's life, also after reload() calls.
C17_GetInfallible ==
    last.op \in {"AccountRef::get", "AccountRefMut::get", "AccountRefMut::get_mut"}
        => last.res = Ok

\* ------------------------------------- claims on the shard triplet context

\* The account behind the handle a position was given.
Given(pos) == shard.slots[shard.args[pos]]

\* C18: new and try_new construct exactly one AccountRefMut per distinct
\* handle among (low, current, high): one load for three identical handles,
\* two loads for exactly two identical handles, three for pairwise distinct
\* handles.
C18_OneLoadPerHandle ==
    shard.op \in {"new", "try_new"} /\ IsOk(shard.res)
        => Len(shard.loads) = Cardinality({Given(pos) : pos \in DOMAIN Positions})

\* C19: when positions were given the same handle, a write made through one
\* of them (low_mut, current_mut, high_mut, or an element of all_mut /
\* all_data_mut) is observed by a read through every other position that
\* aliases it; positions given a different handle are unaffected.
C19_AliasedWritesObserved ==
    shard.op \in {"new", "try_new"} /\ shard.r # NoAccess =>
        IF Given(shard.r.pos) = Given(shard.w.pos)
        THEN shard.r.value = shard.w.value
        ELSE shard.r.value = shard.old[shard.r.pos]

\* The error of the first load that fails, in the order low, current, high.
FirstFailure ==
    LET res(pos) == AccountRefMut_load(Infos[shard.args[pos]], "Wallet").res
    IN  IF \A pos \in DOMAIN Positions : IsOk(res(pos)) THEN Ok
        ELSE res(CHOOSE pos \in DOMAIN Positions :
                    /\ ~IsOk(res(pos))
                    /\ \A q \in DOMAIN Positions : q < pos => IsOk(res(q)))

\* The references of the positions that alias no earlier position, in the
\* order low, current, high.
NonAliased ==
    LET a == shard.args
    IN  <<a[1]>> \o (IF a[2] # a[1] THEN <<a[2]>> ELSE <<>>)
                \o (IF a[3] # a[1] /\ a[3] # a[2] THEN <<a[3]>> ELSE <<>>)

\* C20: new loads the non-aliased positions in the order low, current, high
\* with the AccountRefMut::load contract and returns the error of the first
\* load that fails, unchanged; try_new applies the same aliasing logic and
\* returns None exactly when new returns an error and Some exactly when new
\* succeeds. Neither changes an account.
C20_NewLoadsInOrder ==
    shard.op \in {"new", "try_new"} =>
        /\ shard.op = "new" => shard.res = FirstFailure
        /\ shard.op = "try_new" =>
              /\ IsOk(shard.res) <=> IsOk(FirstFailure)
              /\ IsOk(shard.res) <=>
                    IsOk(ShardRefMutContext_new(Infos, shard.args[1], shard.args[2],
                                                shard.args[3]).res)
              /\ ~IsOk(shard.res) => shard.res = Err("None")
        /\ Len(shard.loads) <= Len(NonAliased)
        /\ shard.loads = SubSeq(NonAliased, 1, Len(shard.loads))
        /\ IsOk(shard.res) => shard.loads = NonAliased
        /\ \A n \in DOMAIN shard.loads :
              IsOk(AccountRefMut_load(Infos[shard.loads[n]], "Wallet").res)
                 <=> (n < Len(shard.loads) \/ IsOk(shard.res))
        /\ shard.w = NoAccess => accounts = before

\* C20 witness: new on three different references returned IllegalOwner,
\* the error of the load of current, and did not load high, whose load
\* fails with InvalidAccountData.
C20_Witness ==
    /\ shard.op = "new"
    /\ shard.res = Err("IllegalOwner")
    /\ Len(shard.loads) = Len(shard.args) - 1
    /\ shard.loads = SubSeq(shard.args, 1, Len(shard.loads))
    /\ AccountRefMut_load(Infos[shard.args[Len(shard.args)]], "Wallet").res
          = Err("InvalidAccountData")

\* C21: ShardRefContext::new always constructs prev, constructs current only
\* if its handle is not the handle of prev, and constructs next only if its
\* handle is neither the handle of prev nor that of current, so that at most
\* one accessor with an exclusive view exists per distinct handle.
C21_RefContextDeduplicates ==
    shard.op = "ShardRefContext::new" /\ IsOk(shard.res)
        => /\ shard.loads = NonAliased
           /\ Len(shard.loads) = Cardinality({Given(pos) : pos \in DOMAIN Positions})

\* ------------------------------------ claims on the validated identities

\* C22: wrap of each wrapper is the predicate of its table entry and changes
\* nothing: Signer succeeds iff is_signer, else MissingRequiredSignature;
\* MutSigner succeeds iff is_signer and is_writable, a handle that is not a
\* signer yields MissingRequiredSignature and a signer that is not writable
\* InvalidAccountData; Writable succeeds iff is_writable, else
\* InvalidAccountData; ReadOnly always succeeds; a program or sysvar
\* wrapper succeeds iff the address is its identity (TokenProgram: either
\* token program), else IncorrectProgramId.
C22_WrapIsItsPredicate ==
    LET Result(ok, e) == IF ok THEN Ok ELSE Err(e)
        W == last.T
    IN  last.op = W \o "::wrap" =>
          /\ Post = Pre
          /\ W = "Signer" => last.res = Result(Pre.is_signer, "MissingRequiredSignature")
          /\ W = "MutSigner" =>
                /\ IsOk(last.res) <=> Pre.is_signer /\ Pre.is_writable
                /\ ~Pre.is_signer => last.res = Err("MissingRequiredSignature")
                /\ Pre.is_signer /\ ~Pre.is_writable
                      => last.res = Err("InvalidAccountData")
          /\ W = "Writable" => last.res = Result(Pre.is_writable, "InvalidAccountData")
          /\ W = "ReadOnly" => last.res = Ok
          /\ W = "TokenProgram" =>
                last.res = Result(Pre.address \in {"Token", "Token2022"},
                                  "IncorrectProgramId")
          /\ W \in DOMAIN Identities \ {"TokenProgram"} =>
                /\ Cardinality(Identities[W]) = 1
                /\ last.res = Result(Identities[W] = {Pre.address}, "IncorrectProgramId")

\* C22 witness: MutSigner::wrap on a handle that is neither a signer nor
\* writable returned MissingRequiredSignature.
C22_Witness ==
    /\ last.op = "MutSigner::wrap"
    /\ ~Pre.is_signer /\ ~Pre.is_writable
    /\ last.res = Err("MissingRequiredSignature")

\* ------------------------------------------------ claims on the borrows

\* C23: obtaining a view of the buffer is checked at run time: constructing
\* an AccountRefMut on a handle while another accessor over the same
\* handle, shared or exclusive, is alive returns an error instead of a
\* second live view of the buffer.
C23_BorrowIsChecked ==
    [][(/\ last'.op \in WritableChecked \cup {"AccountRefMut::load_unchecked"}
        /\ \E a \in live : a.h = last'.h)
          => ~IsOk(last'.res)]_vars

\* ------------------------------------------- claims on the Parameter Block

\* C24: parse_params::<T>(data) returns InvalidInstructionData iff data is
\* shorter than size_of::<T>(); otherwise it returns the value of exactly
\* the first size_of::<T>() bytes of data, whatever follows them, and it
\* never modifies data.
C24_ParseParams ==
    Len(proc.trace) >= 1 =>
        LET data == SubSeq(proc.data, proc.offset + 1, Len(proc.data))
            size == size_of(proc.handler)
            decode == proc.trace[1].res
        IN  /\ decode = Err("InvalidInstructionData") <=> Len(data) < size
            /\ Len(data) >= size =>
                  /\ decode = Ok
                  /\ proc.params = IF proc.handler = "Transfer"
                                   THEN from_le_bytes(SubSeq(data, 1, size))
                                   ELSE data[1]

\* C25: the two generated paths hand different slices to the handler for
\* the same buffer: process(data) passes data[1..] to the handler's
\* Instruction::process, dispatch(program_id, accounts, data) passes data
\* unchanged, so on the dispatch path the Parameter Block is decoded from
\* the full data including byte 0.
C25_TwoDispatchPaths ==
    Len(proc.trace) >= 1 =>
        LET handed == SubSeq(proc.data, proc.offset + 1, Len(proc.data))
            decode == proc.trace[1].res
        IN  /\ proc.entry = "process" => handed = Tail(proc.data)
            /\ proc.entry = "dispatch" =>
                  /\ handed = proc.data
                  /\ decode = Err("InvalidInstructionData")
                        <=> Len(proc.data) < size_of(proc.handler)
                  /\ IsOk(decode) => proc.params = read_params(proc.handler, proc.data)

\* C25 witness: dispatch decoded the amount of Transfer from the first eight
\* bytes of the buffer, byte 0 included, which is not the amount process
\* decodes from the same buffer.
C25_Witness ==
    /\ proc.entry = "dispatch" /\ proc.handler = "Transfer"
    /\ Len(proc.trace) >= 1 /\ IsOk(proc.trace[1].res)
    /\ Len(proc.data) > TransferParamsSize
    /\ proc.params = read_params("Transfer", proc.data)
    /\ proc.params # read_params("Transfer", Tail(proc.data))

\* --------------------------------- further claims on the shard triplet

\* C26: ShardRefMutContext::new deduplicates accounts that have the same
\* address: an account that two or three positions refer to is loaded only
\* once, so no two owned AccountRefMut of one context hold exclusive views
\* of the same account data.
C26_OneAccessorPerAccount ==
    shard.op = "new" /\ IsOk(shard.res) =>
        \A m, n \in DOMAIN shard.loads :
            shard.slots[shard.loads[m]] = shard.slots[shard.loads[n]] => m = n

\* ---------------------------------------- claims on the interface metadata

\* C27: for every wrapper type the #[instruction] macro recognises, the
\* (is_signer, is_writable) flags it emits equal the flags the type's
\* runtime constructor enforces: a type reported as writable (or signer)
\* rejects every handle that is not writable (or not a signer), and a type
\* not reported so accepts such a handle when its other checks pass.
C27_MetadataMatchesChecks ==
    \A type_name \in DOMAIN analyze_field_type :
        last.op = "field " \o type_name =>
            LET meta == analyze_field_type[type_name]
                on(s, w) == field_constructor(type_name,
                               [Pre EXCEPT !.is_signer = s, !.is_writable = w]).res
            IN  /\ IsOk(last.res) /\ meta.is_writable => Pre.is_writable
                /\ IsOk(last.res) /\ meta.is_signer => Pre.is_signer
                /\ IsOk(on(TRUE, TRUE)) =>
                      /\ meta.is_writable <=> ~IsOk(on(TRUE, FALSE))
                      /\ meta.is_signer <=> ~IsOk(on(FALSE, TRUE))

C29_FailedInitWritesNothing ==
    last.op \in {"AccountRefMut::init", "AccountRefMut::init_if_needed"} =>
        /\ ~IsOk(last.res) => Post.data = Pre.data /\ Post = Pre
        /\ Post.data # Pre.data =>
              /\ IsOk(last.res)
              /\ Post.data = [Pre.data EXCEPT ![1] = DISCRIMINATOR(last.T)]

\* C29 witness: init refused an account that holds another type, and
\* init_if_needed would refuse it too.
C29_Witness ==
    /\ last.op = "AccountRefMut::init"
    /\ last.res = account_already_initialized
    /\ Pre.is_writable /\ Len(Pre.data) >= LEN(last.T)
    /\ Pre.data[1] \notin {0, DISCRIMINATOR(last.T)}
    /\ ~IsOk(AccountRefMut_init_if_needed(Pre, last.T).res)

\* -------------------------------------------------- claims on the vaults

\* C30: Vault::amount() never fails on a successfully wrapped Vault: every
\* account Vault::wrap accepts (owned by a token program, token-owner field
\* equal to the expected authority) has enough data for the amount field
\* at bytes 64..72, so amount() always returns a value.
C30_AmountNeverFails ==
    last.op = "Vault::amount" =>
        /\ IsOk(last.res)
        /\ Len(Post.data) >= 72

====
